---- MODULE Spec2Model ----
(***************************************************************************)
(* Model of augur's GitHubAPI data source (src/src/githubapi.py): the      *)
(* metric functions that fetch pages from the GitHub REST / GraphQL API    *)
(* and aggregate them into tables.                                         *)
(*                                                                         *)
(* One action per HTTP round trip of a handler (an iteration of its        *)
(* fetch loop, together with everything the handler does after the loop    *)
(* when that iteration is the last one).  The server is the environment:   *)
(* every response is chosen with \E from the well-formed responses.        *)
(***************************************************************************)
EXTENDS Integers, Sequences, FiniteSets

VARIABLES
    pc,            \* position of the running call: "idle", a loop, "fetched", "returned", "raised"
    op,            \* the metric function being called
    i,             \* code_commits: page number
    json,          \* closed_issues / code_commits / lines_of_code_changed: parsed records
    url,           \* open_issues: URL of the next request
    issues,        \* open_issues: collected records
    cursor,        \* bus_factor: the text spliced into history(first: 100%s)
    hasNextPage,   \* bus_factor: loop flag
    threshold,     \* bus_factor: threshold after "threshold / 100"
    commit_count,  \* bus_factor: collected {'email': ...} rows
    requests,      \* the requests issued so far by the call (what requests.get/post was given)
    responses,     \* the responses received so far by the call
    result         \* what the call returned or raised

vars == <<pc, op, i, json, url, issues, cursor, hasNextPage, threshold,
          commit_count, requests, responses, result>>

----------------------------------------------------------------------------
(* Bounds of the model *)

MaxPageLen == 2          \* records per REST page (code_commits)
MaxCommitRequests == 3   \* requests explored for one code_commits call
MaxIssuesPerPage == 1    \* records per page of open_issues
MaxIssueRequests == 3    \* requests explored for one open_issues call
MaxEdges == 2            \* edges per GraphQL page
MaxBusRequests == 2      \* requests explored for one bus_factor call
MaxCommits == 5          \* commit_count rows handed to the bus-factor aggregation
MaxRecords == 3          \* records handed to the per-day aggregations
MaxWeeks == 2            \* rows of a code_frequency response

----------------------------------------------------------------------------
(* Values *)

\* A timestamp is <<day, hour>>; the API sends ISO-8601 strings.
Days == {1, 2, 3}
Hours == {8, 23}
Timestamps == Days \X Hours
PageStamps == {<<1, 23>>, <<2, 8>>}

\* JSON values as Python sees them after .json(): a list, or a dict (its keys
\* in order; the code never reads the values of an error body).
JList(s) == [list |-> s]
JDict(keys) == [dict |-> keys]
ErrorBody == JDict(<<"message", "documentation_url">>)

Commit(ts) == [commit |-> [author |-> [date |-> ts]]]
Issue(ts) == [created_at |-> ts]
JStr(s) == [str |-> s]

SeqsUpTo(S, n) == UNION {[1..k -> S] : k \in 0..n}

\* len(j)
py_len(j) == IF "list" \in DOMAIN j THEN Len(j.list) ELSE Len(j.dict)

\* the items "lst += j" appends: the elements of a list, the keys of a dict
py_iter(j) ==
    IF "list" \in DOMAIN j THEN j.list
    ELSE [k \in DOMAIN j.dict |-> JStr(j.dict[k])]

Table(rows) == [kind |-> "table", rows |-> rows]
Raise(exc) == [kind |-> "raise", exc |-> exc]
NoResult == [kind |-> "none"]

----------------------------------------------------------------------------
(* Per-day counts: to_datetime(...).dt.normalize(), groupby(...).size() *)

\* .dt.normalize(): midnight of the same day
normalize(ts) == <<ts[1], 0>>

DateLess(x, y) == x[1] < y[1] \/ (x[1] = y[1] /\ x[2] < y[2])

RECURSIVE SortDates(_)
SortDates(S) ==
    IF S = {} THEN <<>>
    ELSE LET m == CHOOSE x \in S : \A y \in S : x = y \/ DateLess(x, y)
         IN <<m>> \o SortDates(S \ {m})

\* df.groupby('created_at').size().reset_index(name='count'):
\* one row per distinct key, keys ascending
groupby_size(col) ==
    LET keys == SortDates({col[k] : k \in DOMAIN col})
    IN [n \in DOMAIN keys |->
          [created_at |-> keys[n],
           count |-> Cardinality({k \in DOMAIN col : col[k] = keys[n]})]]

per_day(col) == groupby_size([k \in DOMAIN col |-> normalize(col[k])])

----------------------------------------------------------------------------
(* What each handler does with the records once they are fetched *)

\* closed_issues, lines 51-57.  pd.DataFrame(json, columns=['created_at']) keeps
\* the created_at of every record of a list; of a dict without that key
\* (an error body) it keeps nothing and the frame is empty.
closed_issues_frame(j) ==
    IF "list" \in DOMAIN j
    THEN Table(per_day([k \in DOMAIN j.list |-> j.list[k].created_at]))
    ELSE Table(<<>>)

\* code_commits, lines 81-87.  json[i]['commit'] on a str raises TypeError;
\* from_dict({}) has no column, so "df.columns = ['created_at']" raises
\* ValueError (length mismatch) when nothing was fetched.
code_commits_frame(lst) ==
    IF \E k \in DOMAIN lst : "str" \in DOMAIN lst[k] THEN Raise("TypeError")
    ELSE IF lst = <<>> THEN Raise("ValueError")
    ELSE Table(per_day([k \in DOMAIN lst |-> lst[k].commit.author.date]))

\* open_issues, lines 151-155.  A list of dicts gives the created_at column;
\* a str among dicts fails in the frame constructor ('str' has no keys()),
\* a list that starts with a str becomes a column that to_datetime cannot parse.
open_issues_frame(lst) ==
    IF \A k \in DOMAIN lst : "created_at" \in DOMAIN lst[k]
    THEN Table(per_day([k \in DOMAIN lst |-> lst[k].created_at]))
    ELSE IF "str" \in DOMAIN lst[1] THEN Raise("ValueError")
    ELSE Raise("AttributeError")

\* pd.to_datetime(df['date'], unit='s'): epoch seconds to <<day, second of day>>
to_datetime_s(t) == <<t \div 86400, t % 86400>>

RECURSIVE cumsum(_)
cumsum(s) ==
    IF s = <<>> THEN <<>>
    ELSE LET front == cumsum(SubSeq(s, 1, Len(s) - 1))
         IN Append(front, (IF front = <<>> THEN 0 ELSE front[Len(front)]) + s[Len(s)])

\* line 123: df['deletions'] = df['deletions'] * -1
negate_deletions(d) == d * (-1)

\* the difference taken on the deletions as the API sent them
delta_as_sent(additions, deletions) == additions - deletions

\* line 124: df['delta'] = df['additions'] - df['deletions'], on the column
\* line 123 has just rewritten
row_delta(additions, deletions) == additions - negate_deletions(deletions)

\* lines_of_code_changed, lines 119-127.  A row of the response is
\* <<date, additions, deletions>>; an error body (a dict) gives an empty frame.
lines_of_code_changed_frame(j) ==
    IF "list" \in DOMAIN j
    THEN LET rows == j.list
             delta == [k \in DOMAIN rows |-> row_delta(rows[k][2], rows[k][3])]
             total == cumsum(delta)
         IN Table([k \in DOMAIN rows |->
                     [date |-> to_datetime_s(rows[k][1]),
                      additions |-> rows[k][2],
                      deletions |-> negate_deletions(rows[k][3]),
                      delta |-> delta[k],
                      total_lines |-> total[k]]])
    ELSE Table(<<>>)

----------------------------------------------------------------------------
(* bus_factor, lines 231-253 *)

\* Exact fractions, for "/ 100" and "/ sum() * 100"
Frac(n, d) == [num |-> n, den |-> d]
FracGE(x, y) == x.num * y.den >= y.num * x.den

\* line 191: threshold = threshold / 100
threshold_fraction(t) == Frac(t, 100)

\* df.groupby(['email']).email.count(): commits per distinct email
email_counts(emails) ==
    LET E == {emails[k] : k \in DOMAIN emails}
    IN [e \in E |-> Cardinality({k \in DOMAIN emails : emails[k] = e})]

\* sort_values(ascending=True) of the values of a Series, as a sequence
RECURSIVE sort_values_asc(_)
sort_values_asc(f) ==
    IF DOMAIN f = {} THEN <<>>
    ELSE LET m == CHOOSE e \in DOMAIN f : \A o \in DOMAIN f : f[e] <= f[o]
         IN <<f[m]>> \o sort_values_asc([e \in DOMAIN f \ {m} |-> f[e]])

Reverse(s) == [k \in DOMAIN s |-> s[Len(s) + 1 - k]]

sort_values(f, ascending) ==
    IF ascending THEN sort_values_asc(f) ELSE Reverse(sort_values_asc(f))

\* line 235: count / count.sum() * 100, per email, as a fraction
share_percent(count, total) == Frac(count * 100, total)

\* lines 237-241 and 244-248: i counts the values walked until one is >= threshold
walk_until(cum, total, thr) ==
    LET hit == {k \in DOMAIN cum : FracGE(share_percent(cum[k], total), thr)}
    IN IF hit = {} THEN Len(cum) ELSE CHOOSE k \in hit : \A o \in hit : k <= o

bus_factor_frame(rows, thr) ==
    LET emails == [k \in DOMAIN rows |-> rows[k].email]
        counts == email_counts(emails)
        total == Len(emails)
        worst == walk_until(cumsum(sort_values(counts, FALSE)), total, thr)
        best == walk_until(cumsum(sort_values(counts, TRUE)), total, thr)
    IN Table(<<[worst |-> worst, best |-> best]>>)

----------------------------------------------------------------------------
(* The server: the responses a request can get *)

ClosedUrl == "issues?state=closed"
CodeFrequencyUrl == "stats/code_frequency"
IssuesUrl == "issues?state=all"
CommitsUrl(page) == [path |-> "commits", page |-> page]
NextUrls == {"issues?page=2", "issues?page=3"}

\* response.links: the parsed Link header, with or without a 'next' relation
NextLink(u) == [next |-> [url |-> u]]
NoNextLink == [first |-> [url |-> IssuesUrl]]

NotFound == [status |-> 404, body |-> ErrorBody, links |-> NoNextLink]
Ok(body, links) == [status |-> 200, body |-> body, links |-> links]

ClosedIssuesResponses ==
    {Ok(JList(s), NoNextLink) : s \in SeqsUpTo({Issue(ts) : ts \in Timestamps}, MaxRecords)}
        \cup {NotFound}

\* [unix time of the week, additions, deletions]; GitHub reports deletions as
\* numbers <= 0, a synthetic response may carry any integer
WeekRows == {0, 604800} \X {0, 5, 10} \X {-4, -1, 0, 1, 4}

CodeFrequencyResponses ==
    {Ok(JList(s), NoNextLink) : s \in SeqsUpTo(WeekRows, MaxWeeks)} \cup {NotFound}

CommitsResponses ==
    {Ok(JList(s), NoNextLink) : s \in SeqsUpTo({Commit(ts) : ts \in PageStamps}, MaxPageLen)}
        \cup {NotFound}

IssuesResponses ==
    {Ok(JList(s), l) : s \in SeqsUpTo({Issue(ts) : ts \in PageStamps}, MaxIssuesPerPage),
                       l \in {NextLink(u) : u \in NextUrls} \cup {NoNextLink}}
        \cup {NotFound}

\* GraphQL: an edge is {cursor, node: {author: {email}}}
Edge(c, e) == [cursor |-> c, node |-> [author |-> [email |-> e]]]
Edges == {Edge("c1", "a"), Edge("c2", "a"), Edge("c2", "b")}
History(edges, more) ==
    [data |-> [repository |-> [ref |-> [target |-> [history |->
        [pageInfo |-> [hasNextPage |-> more], edges |-> edges]]]]]]
Unauthorized == [status |-> 401, body |-> [message |-> "Bad credentials"]]

\* A page that announces a next page holds at least one edge (history(first: 100)
\* returns the first edges after the cursor; more can follow only after some).
GraphQLResponses ==
    {[status |-> 200, body |-> History(p[1], p[2])] :
        p \in {q \in SeqsUpTo(Edges, MaxEdges) \X BOOLEAN : q[2] => q[1] # <<>>}}
        \cup {Unauthorized}

Thresholds == {0, 50, 100}

----------------------------------------------------------------------------
(* The calls *)

Init ==
    /\ pc = "idle"
    /\ op = "none"
    /\ i = 0
    /\ json = <<>>
    /\ url = ""
    /\ issues = <<>>
    /\ cursor = <<>>
    /\ hasNextPage = TRUE
    /\ threshold = Frac(0, 1)
    /\ commit_count = <<>>
    /\ requests = <<>>
    /\ responses = <<>>
    /\ result = NoResult

Finish(res) ==
    /\ result' = res
    /\ pc' = IF res.kind = "raise" THEN "raised" ELSE "returned"

\* closed_issues, lines 49-57: one GET, then the frame
closed_issues ==
    /\ pc = "idle"
    /\ \E resp \in ClosedIssuesResponses :
        /\ op' = "closed_issues"
        /\ requests' = <<ClosedUrl>>
        /\ responses' = <<resp>>
        /\ json' = resp.body
        /\ Finish(closed_issues_frame(resp.body))
        /\ UNCHANGED <<i, url, issues, cursor, hasNextPage, threshold, commit_count>>

\* lines_of_code_changed, lines 116-127: one GET, then the frame
lines_of_code_changed ==
    /\ pc = "idle"
    /\ \E resp \in CodeFrequencyResponses :
        /\ op' = "lines_of_code_changed"
        /\ requests' = <<CodeFrequencyUrl>>
        /\ responses' = <<resp>>
        /\ json' = resp.body
        /\ Finish(lines_of_code_changed_frame(resp.body))
        /\ UNCHANGED <<i, url, issues, cursor, hasNextPage, threshold, commit_count>>

\* code_commits, lines 68-70
code_commits_enter ==
    /\ pc = "idle"
    /\ op' = "code_commits"
    /\ pc' = "code_commits_loop"
    /\ i' = 0
    /\ json' = <<>>
    /\ UNCHANGED <<url, issues, cursor, hasNextPage, threshold, commit_count,
                   requests, responses, result>>

\* the page number left as it is
same_page(page) == page

\* line 79: i += 1
next_page(page) == page + 1

\* line 78: json += j
extend(lst, j) == lst \o py_iter(j)

\* code_commits, one iteration of lines 73-79 and, when it breaks, lines 81-87
code_commits_fetch ==
    /\ pc = "code_commits_loop"
    /\ \E resp \in CommitsResponses :
        /\ Len(requests) < MaxCommitRequests
        /\ requests' = Append(requests, CommitsUrl(i))
        /\ responses' = Append(responses, resp)
        /\ IF py_len(resp.body) = 0
           THEN /\ Finish(code_commits_frame(json))
                /\ UNCHANGED <<json, i>>
           ELSE /\ json' = extend(json, resp.body)
                /\ i' = next_page(i)
                /\ UNCHANGED <<pc, result>>
        /\ UNCHANGED <<op, url, issues, cursor, hasNextPage, threshold, commit_count>>

\* open_issues, lines 139-140
open_issues_enter ==
    /\ pc = "idle"
    /\ op' = "open_issues"
    /\ pc' = "open_issues_loop"
    /\ url' = IssuesUrl
    /\ issues' = <<>>
    /\ UNCHANGED <<i, json, cursor, hasNextPage, threshold, commit_count,
                   requests, responses, result>>

\* the next URL rebuilt from a page number instead of read from the link
rebuilt_url(links) == "issues?page=2"

\* line 149: url = response.links['next']['url']
next_url(links) == links.next.url

\* open_issues, one iteration of lines 142-149 and, when it breaks, lines 151-155
open_issues_fetch ==
    /\ pc = "open_issues_loop"
    /\ \E resp \in IssuesResponses :
        /\ Len(requests) < MaxIssueRequests
        /\ requests' = Append(requests, url)
        /\ responses' = Append(responses, resp)
        /\ issues' = extend(issues, resp.body)
        /\ IF "next" \notin DOMAIN resp.links
           THEN /\ Finish(open_issues_frame(issues'))
                /\ UNCHANGED url
           ELSE /\ url' = next_url(resp.links)
                /\ UNCHANGED <<pc, result>>
        /\ UNCHANGED <<op, i, json, cursor, hasNextPage, threshold, commit_count>>

\* bus_factor, lines 187-191
bus_factor_enter ==
    /\ pc = "idle"
    /\ \E t \in Thresholds :
        /\ op' = "bus_factor"
        /\ pc' = "bus_factor_loop"
        /\ cursor' = <<>>
        /\ commit_count' = <<>>
        /\ hasNextPage' = TRUE
        /\ threshold' = threshold_fraction(t)
        /\ UNCHANGED <<i, json, url, issues, requests, responses, result>>

\* lines 193-220: the query text, with the cursor spliced after "first: 100"
Query(after) == [query |-> <<"history(first: 100">> \o after \o <<")">>]

\* line 228, the formatting: ", after: \"%s\"" % c
after_text(c) == <<", after: ", c>>

\* the cursor taken from the first edge of the page
first_edge(commits) == commits[1]

\* line 228, the edge whose cursor is taken: commits[-1]
last_edge(commits) == commits[Len(commits)]

\* bus_factor, one iteration of lines 192-228 and, when the loop ends, lines 231-253
bus_factor_fetch ==
    /\ pc = "bus_factor_loop"
    /\ \E resp \in GraphQLResponses :
        /\ Len(requests) < MaxBusRequests
        /\ requests' = Append(requests, Query(cursor))
        /\ responses' = Append(responses, resp)
        /\ IF "data" \notin DOMAIN resp.body
           THEN \* line 224: data['data'] on a body without it
                /\ Finish(Raise("KeyError"))
                /\ UNCHANGED <<hasNextPage, commit_count, cursor>>
           ELSE LET history == resp.body.data.repository.ref.target.history
                    commits == history.edges
                IN /\ hasNextPage' = history.pageInfo.hasNextPage
                   /\ commit_count' = commit_count \o
                        [k \in DOMAIN commits |-> [email |-> commits[k].node.author.email]]
                   /\ IF commits = <<>>
                      THEN \* line 228: commits[-1] on an empty list
                           /\ Finish(Raise("IndexError"))
                           /\ UNCHANGED cursor
                      ELSE /\ cursor' = after_text(last_edge(commits).cursor)
                           /\ IF hasNextPage'
                              THEN UNCHANGED <<pc, result>>
                              ELSE Finish(bus_factor_frame(commit_count', threshold))
        /\ UNCHANGED <<op, i, json, url, issues, threshold>>

Next ==
    \/ closed_issues
    \/ lines_of_code_changed
    \/ code_commits_enter
    \/ code_commits_fetch
    \/ open_issues_enter
    \/ open_issues_fetch
    \/ bus_factor_enter
    \/ bus_factor_fetch

Spec == Init /\ [][Next]_vars

----------------------------------------------------------------------------
(* The aggregation of the paginated handlers on its own, over every list of  *)
(* records their fetch loops can leave behind                                *)

Emails == {"a", "b", "c"}

InitAggregate ==
    /\ pc = "fetched"
    /\ i = 0
    /\ url = ""
    /\ cursor = <<>>
    /\ hasNextPage = FALSE
    /\ requests = <<>>
    /\ responses = <<>>
    /\ result = NoResult
    /\ \/ /\ op = "bus_factor"
          \* the loop never ends normally with no row: see line 228
          /\ commit_count \in (SeqsUpTo({[email |-> e] : e \in Emails}, MaxCommits) \ {<<>>})
          /\ threshold \in {threshold_fraction(t) : t \in Thresholds}
          /\ json = <<>>
          /\ issues = <<>>
       \/ /\ op = "code_commits"
          /\ json \in SeqsUpTo({Commit(ts) : ts \in Timestamps}, MaxRecords)
          /\ commit_count = <<>>
          /\ threshold = Frac(0, 1)
          /\ issues = <<>>
       \/ /\ op = "open_issues"
          /\ issues \in SeqsUpTo({Issue(ts) : ts \in Timestamps}, MaxRecords)
          /\ commit_count = <<>>
          /\ threshold = Frac(0, 1)
          /\ json = <<>>

Aggregated == UNCHANGED <<op, i, json, url, issues, cursor, hasNextPage, threshold,
                          commit_count, requests, responses>>

bus_factor_aggregate ==
    /\ pc = "fetched" /\ op = "bus_factor"
    /\ Finish(bus_factor_frame(commit_count, threshold))
    /\ Aggregated

code_commits_aggregate ==
    /\ pc = "fetched" /\ op = "code_commits"
    /\ Finish(code_commits_frame(json))
    /\ Aggregated

open_issues_aggregate ==
    /\ pc = "fetched" /\ op = "open_issues"
    /\ Finish(open_issues_frame(issues))
    /\ Aggregated

NextAggregate ==
    \/ bus_factor_aggregate
    \/ code_commits_aggregate
    \/ open_issues_aggregate

SpecAggregate == InitAggregate /\ [][NextAggregate]_vars

----------------------------------------------------------------------------
(* Properties *)

Finished == pc \in {"returned", "raised"}

RECURSIVE Concat(_)
Concat(ss) == IF ss = <<>> THEN <<>> ELSE Head(ss) \o Concat(Tail(ss))

RECURSIVE SumTo(_, _)
SumTo(f, k) == IF k = 0 THEN 0 ELSE f[k] + SumTo(f, k - 1)

LastResponse == responses[Len(responses)]

HasData(resp) == "data" \in DOMAIN resp.body
HistoryOf(resp) == resp.body.data.repository.ref.target.history

C4_OffsetPagination ==
    op = "code_commits" =>
        /\ Len(requests) = Len(responses)
        /\ \A k \in DOMAIN requests : requests[k] = [path |-> "commits", page |-> k - 1]
        /\ \A k \in DOMAIN responses :
              k < Len(responses) => py_len(responses[k].body) > 0
        /\ Finished <=> (responses # <<>> /\ py_len(LastResponse.body) = 0)
        /\ json = Concat([k \in DOMAIN responses |-> py_iter(responses[k].body)])

\* C4, its case: N = 3, two non-empty pages and the empty one
C4_ThreePages ==
    /\ op = "code_commits"
    /\ pc = "returned"
    /\ Len(requests) = 3
    /\ Len(json) = 3
    /\ json[1] # json[3]

\* C5: link-header pagination of open_issues.  The first request goes to the
\* initial URL, each further one to the URL of the previous response's 'next'
\* relation; the call is over at the first response without one; the items of
\* every page, the last included, are collected in order.
C5_LinkPagination ==
    op = "open_issues" =>
        /\ Len(requests) = Len(responses)
        /\ requests # <<>> => requests[1] = "issues?state=all"
        /\ \A k \in 2..Len(requests) :
              /\ "next" \in DOMAIN responses[k - 1].links
              /\ requests[k] = responses[k - 1].links.next.url
        /\ Finished <=> (responses # <<>> /\ "next" \notin DOMAIN LastResponse.links)
        /\ (pc = "open_issues_loop" /\ responses # <<>>) => url = LastResponse.links.next.url
        /\ issues = Concat([k \in DOMAIN responses |-> py_iter(responses[k].body)])

\* C5, its case: a chain of three pages, each with an item, the third without 'next'
C5_ThreePages ==
    /\ op = "open_issues"
    /\ pc = "returned"
    /\ Len(requests) = 3
    /\ requests[2] = "issues?page=3"
    /\ \A k \in 1..3 : py_len(responses[k].body) = 1
    /\ Len(issues) = 3

\* C6: bus_factor on an empty commit history (first response: no edge,
\* hasNextPage false) ends in a typed insufficient-data error.
C6_EmptyHistoryTypedError ==
    ( /\ op = "bus_factor"
      /\ Len(responses) = 1
      /\ HasData(responses[1])
      /\ HistoryOf(responses[1]).edges = <<>>
      /\ ~HistoryOf(responses[1]).pageInfo.hasNextPage )
    => result = Raise("InsufficientData")

InputRows == responses[1].body.list
OutputRows == result.rows

\* C7 as stated: delta_k = additions_k - deletions_k on the deletions value of
\* the input, total_lines_k = delta_0 + ... + delta_k.
C7_DeltaOnInputDeletions ==
    (op = "lines_of_code_changed" /\ "list" \in DOMAIN responses[1].body) =>
        /\ result.kind = "table"
        /\ Len(OutputRows) = Len(InputRows)
        /\ \A k \in DOMAIN InputRows :
              /\ OutputRows[k].delta = InputRows[k][2] - InputRows[k][3]
              /\ OutputRows[k].total_lines =
                    SumTo([n \in DOMAIN InputRows |-> InputRows[n][2] - InputRows[n][3]], k)

\* C7, amended: one output row per input row, in the same order; the output
\* deletions are the input deletions negated; delta_k = additions_k minus the
\* negated deletions, that is additions_k + deletions_k of the input;
\* total_lines_k = delta_0 + ... + delta_k.
C7_DeltaOnNegatedDeletions ==
    (op = "lines_of_code_changed" /\ "list" \in DOMAIN responses[1].body) =>
        /\ result.kind = "table"
        /\ Len(OutputRows) = Len(InputRows)
        /\ \A k \in DOMAIN InputRows :
              /\ OutputRows[k].date[1] * 86400 + OutputRows[k].date[2] = InputRows[k][1]
              /\ OutputRows[k].additions = InputRows[k][2]
              /\ OutputRows[k].deletions = 0 - InputRows[k][3]
              /\ OutputRows[k].delta = InputRows[k][2] + InputRows[k][3]
              /\ OutputRows[k].total_lines =
                    SumTo([n \in DOMAIN InputRows |-> InputRows[n][2] + InputRows[n][3]], k)

\* C7, its case: additions 10 and 5 against 4 and 1 deleted lines (sent as -4
\* and -1) give the deltas 6, 4 and the running totals 6, 10
C7_TwoWeeks ==
    /\ op = "lines_of_code_changed"
    /\ pc = "returned"
    /\ "list" \in DOMAIN responses[1].body
    /\ InputRows = << <<0, 10, -4>>, <<604800, 5, -1>> >>
    /\ OutputRows[1].delta = 6 /\ OutputRows[2].delta = 4
    /\ OutputRows[1].total_lines = 6 /\ OutputRows[2].total_lines = 10

\* The commits of each author, of the rows handed to the aggregation
CommitsOf(e) == Cardinality({k \in DOMAIN commit_count : commit_count[k].email = e})
Authors == {commit_count[k].email : k \in DOMAIN commit_count}

RECURSIVE SetSum(_)
SetSum(S) == IF S = {} THEN 0 ELSE LET e == CHOOSE x \in S : TRUE
                                   IN CommitsOf(e) + SetSum(S \ {e})

\* Some k authors hold at least pct percent of the commits, k >= 1
Covers(S, pct) == SetSum(S) * 100 >= pct * Len(commit_count)

\* The k authors with the fewest (most) commits
Smallest(S) == \A T \in SUBSET Authors : Cardinality(T) = Cardinality(S) => SetSum(S) <= SetSum(T)
Largest(S) == \A T \in SUBSET Authors : Cardinality(T) = Cardinality(S) => SetSum(S) >= SetSum(T)

MinSize(Sets) == CHOOSE n \in {Cardinality(S) : S \in Sets} :
                    \A S \in Sets : n <= Cardinality(S)

\* the threshold as the caller gave it, in percent
ThresholdPercent == threshold.num

\* C1: best is the least number k of authors such that the k smallest shares
\* add up to at least the threshold percentage of all commits.
C1_BestIsSmallestFirst ==
    (op = "bus_factor" /\ pc = "returned") =>
        result.rows[1].best =
            MinSize({S \in SUBSET Authors :
                        S # {} /\ Smallest(S) /\ Covers(S, ThresholdPercent)})

\* C2: worst is the least number k of authors such that the k largest shares
\* add up to at least the threshold percentage of all commits.
C2_WorstIsLargestFirst ==
    (op = "bus_factor" /\ pc = "returned") =>
        result.rows[1].worst =
            MinSize({S \in SUBSET Authors :
                        S # {} /\ Largest(S) /\ Covers(S, ThresholdPercent)})

DayOf(item) ==
    IF "commit" \in DOMAIN item THEN item.commit.author.date[1] ELSE item.created_at[1]

\* the records the call has fetched
Fetched ==
    IF op = "open_issues" THEN issues
    ELSE IF op = "code_commits" THEN json
    ELSE json.list

\* C8: closed_issues, code_commits and open_issues return one row per calendar
\* day that occurs among the fetched records, with the number of records of
\* that day as its count, whatever the records are; the counts add up to the
\* number of records.
C8_PerDayCounts ==
    ( /\ op \in {"closed_issues", "code_commits", "open_issues"}
      /\ Finished
      /\ \A k \in DOMAIN responses : responses[k].status = 200 )
    => /\ result.kind = "table"
       /\ {result.rows[n].created_at : n \in DOMAIN result.rows}
             = {<<DayOf(Fetched[k]), 0>> : k \in DOMAIN Fetched}
       /\ \A m, n \in DOMAIN result.rows :
             result.rows[m].created_at = result.rows[n].created_at => m = n
       /\ \A n \in DOMAIN result.rows :
             result.rows[n].count =
                Cardinality({k \in DOMAIN Fetched :
                                DayOf(Fetched[k]) = result.rows[n].created_at[1]})
       /\ SumTo([n \in DOMAIN result.rows |-> result.rows[n].count], Len(result.rows))
             = Len(Fetched)

HTTPError(status, endpoint) ==
    [kind |-> "raise", exc |-> "HTTPError", status |-> status, endpoint |-> endpoint]

\* C9: a response with a non-2xx status ends the call in an error that names
\* the status code and the endpoint; it is the last response of the call, and
\* its body is not among the collected records.
C9_NonOkSurfaced ==
    \A k \in DOMAIN responses :
        responses[k].status \notin 200..299 =>
            /\ pc = "raised"
            /\ result = HTTPError(responses[k].status, requests[k])
            /\ k = Len(responses)
            /\ op = "code_commits" =>
                  json = Concat([n \in 1..(k - 1) |-> py_iter(responses[n].body)])
            /\ op = "open_issues" =>
                  issues = Concat([n \in 1..(k - 1) |-> py_iter(responses[n].body)])

\* C10: the fetch loop of code_commits is over after at most a fixed number of
\* requests, here MaxCommitRequests, even if no page is ever empty.
C10_RequestCap ==
    (op = "code_commits" /\ Len(requests) >= MaxCommitRequests) => Finished

====
